---------------------------- MODULE Spec2Model ----------------------------
(***************************************************************************)
(* The command interface of the remake debugger: src/src/debugger/cmd.c    *)
(* (command tables, find_command, cmd_initialize, execute_line,            *)
(* dbg_cmd_set_var, enter_debugger) and src/debugger/command/set.h         *)
(* (dbg_cmd_set).                                                          *)
(*                                                                         *)
(* C strings are TLA+ strings; a character is a string of length 1 and is  *)
(* ordered by its ASCII code, as strcmp orders it.                         *)
(***************************************************************************)
EXTENDS Integers, Sequences, FiniteSets, TLC

(***************************************************************************)
(* Bounds of the model.                                                    *)
(***************************************************************************)
MaxCount == 3
MaxMakeLevel == 1
MaxPromptLevel == 6

NULL == "NULL"

(***************************************************************************)
(* Characters and the C string functions used by the code.                 *)
(***************************************************************************)
Ascii == " !\"#$%&'()*+,-./0123456789:;<=>?@ABCDEFGHIJKLMNOPQRSTUVWXYZ[\\]^_\fabcdefghijklmnopqrstuvwxyz{|}~"

\* The backquote (code 96) cannot be written inside a TLA+ string: the form
\* feed stands for it, at the backquote's place in the ASCII order.
BackQuote == "\f"

\* the code of a printable character (' ' is 32)
CharAt(s, i) == SubSeq(s, i, i)

OrdTable ==
  [c \in { CharAt(Ascii, i) : i \in 1..Len(Ascii) } |->
     31 + (CHOOSE i \in 1..Len(Ascii) : CharAt(Ascii, i) = c)]

Ord(c) == OrdTable[c]

strlen(s) == Len(s)

\* cmd.c:82: #define whitespace(c) (((c) == ' ') || ((c) == '\t'))
whitespace(c) == c = " " \/ c = "\t"

\* strcmp: the sign of the first difference, a proper prefix sorting first
RECURSIVE strcmp_from(_, _, _)
strcmp_from(a, b, i) ==
  IF i > Len(a) /\ i > Len(b) THEN 0
  ELSE IF i > Len(a) THEN -1
  ELSE IF i > Len(b) THEN 1
  ELSE IF CharAt(a, i) = CharAt(b, i) THEN strcmp_from(a, b, i + 1)
  ELSE IF Ord(CharAt(a, i)) < Ord(CharAt(b, i)) THEN -1 ELSE 1

strcmp(a, b) == strcmp_from(a, b, 1)

\* number of leading blanks of s
RECURSIVE LeadingBlanks(_)
LeadingBlanks(s) ==
  IF Len(s) > 0 /\ whitespace(Head(s)) THEN 1 + LeadingBlanks(Tail(s)) ELSE 0

\* number of leading non-blanks of s
RECURSIVE LeadingNonBlanks(_)
LeadingNonBlanks(s) ==
  IF Len(s) > 0 /\ ~whitespace(Head(s)) THEN 1 + LeadingNonBlanks(Tail(s)) ELSE 0

DropFirst(s, n) == SubSeq(s, n + 1, Len(s))

\* get_word(&psz): skips leading blanks, returns the run of non-blanks as
\* the word, overwrites the blank that ends it with NUL and leaves psz just
\* after that blank (at the terminating NUL when the word ends the string).
get_word(psz) ==
  LET s == DropFirst(psz, LeadingBlanks(psz))
      n == LeadingNonBlanks(s)
  IN  [word |-> SubSeq(s, 1, n),
       rest |-> IF n < Len(s) THEN DropFirst(s, n + 1) ELSE ""]

(***************************************************************************)
(* The command registry: cmd.c:91-150.                                     *)
(***************************************************************************)
Cmd(l, s) == [long_name |-> l, short_name |-> s]

\* cmd.c:91-124; the NULL entry that ends the table is the end of the sequence
commands == <<
  Cmd("break", "b"), Cmd("cd", "C"), Cmd("comment", "#"),
  Cmd("continue", "c"), Cmd("delete", "d"), Cmd("down", "D"),
  Cmd("edit", "e"), Cmd("expand", "x"), Cmd("finish", "F"),
  Cmd("frame", "f"), Cmd("help", "h"), Cmd("info", "i"),
  Cmd("list", "l"), Cmd("load", "M"), Cmd("next", "n"),
  Cmd("print", "p"), Cmd("pwd", "P"), Cmd("quit", "q"),
  Cmd("run", "R"), Cmd("set", "="), Cmd("setq", "\""),
  Cmd("setqx", BackQuote), Cmd("shell", "!"), Cmd("show", "S"),
  Cmd("skip", "k"), Cmd("source", "<"), Cmd("step", "s"),
  Cmd("target", "t"), Cmd("up", "u"), Cmd("where", "T"),
  Cmd("write", "w") >>

Alias(c, a) == [command |-> c, alias |-> a]

\* cmd.c:133-143
aliases == <<
  Alias("shell", "!!"), Alias("help", "?"), Alias("break", "L"),
  Alias("where", "backtrace"), Alias("where", "bt"), Alias("quit", "exit"),
  Alias("run", "restart"), Alias("quit", "return") >>

\* the index type of short_command[256], restricted to printable characters
SlotCodes == { CharAt(Ascii, i) : i \in 1..Len(Ascii) }

\* cmd.c:146-150: every slot starts with a NULL func
short_command_init == [c \in SlotCodes |-> NULL]

\* cmd.c:159-168: the alias scan; yields the name the command scan looks up
RECURSIVE alias_scan(_, _)
alias_scan(psz_name, i) ==
  IF i > Len(aliases) THEN psz_name
  ELSE LET cmp == strcmp(psz_name, aliases[i].alias)
       IN  IF cmp = 0 THEN aliases[i].command
           ELSE IF cmp < 0 THEN psz_name
           ELSE alias_scan(psz_name, i + 1)

\* cmd.c:170-180: the command scan; yields the slot's code or NULL
RECURSIVE command_scan(_, _)
command_scan(psz_name, i) ==
  IF i > Len(commands) THEN NULL
  ELSE LET cmp == strcmp(psz_name, commands[i].long_name)
       IN  IF cmp = 0 THEN commands[i].short_name
           ELSE IF cmp < 0 THEN NULL
           ELSE command_scan(psz_name, i + 1)

\* cmd.c:154-181
find_command(psz_name) == command_scan(alias_scan(psz_name, 1), 1)


\* set.h:130-143: dbg_cmd_set_init(c) gives slot c, and no other, the handler
dbg_cmd_set_init(sc, c) == [sc EXCEPT ![c] = "dbg_cmd_set"]

\* the dbg_cmd_<CMD>_init(LETTER) of the other commands: each short code
\* gets its command's handler
dbg_cmd_init(sc, cmd, c) ==
  IF cmd = "set" THEN dbg_cmd_set_init(sc, c)
  ELSE [sc EXCEPT ![c] = "dbg_cmd_" \o cmd]

\* cmd.c:258-288: the DBG_CMD_INIT(CMD, LETTER) lines, in order
cmd_init_list == <<
  <<"break", "b">>, <<"chdir", "C">>, <<"comment", "#">>,
  <<"continue", "c">>, <<"delete", "d">>, <<"down", "D">>,
  <<"edit", "e">>, <<"expand", "x">>, <<"finish", "F">>,
  <<"frame", "f">>, <<"help", "h">>, <<"info", "i">>,
  <<"list", "l">>, <<"load", "M">>, <<"next", "n">>,
  <<"print", "p">>, <<"pwd", "P">>, <<"quit", "q">>,
  <<"run", "R">>, <<"set", "=">>, <<"setq", "\"">>,
  <<"setqx", BackQuote>>, <<"shell", "!">>, <<"show", "S">>,
  <<"skip", "k">>, <<"source", "<">>, <<"step", "s">>,
  <<"target", "t">>, <<"up", "u">>, <<"where", "T">>,
  <<"write", "w">> >>

RECURSIVE cmd_initialize_from(_, _)
cmd_initialize_from(sc, i) ==
  IF i > Len(cmd_init_list) THEN sc
  ELSE cmd_initialize_from(
         dbg_cmd_init(sc, cmd_init_list[i][1], cmd_init_list[i][2]), i + 1)

\* cmd.c:254-289
cmd_initialize(sc) == cmd_initialize_from(sc, 1)

resolve_by_name(sc, psz_word) == find_command(psz_word)

\* cmd.c:297-306: the slot execute_line dispatches to, or NULL
resolve(sc, psz_word) ==
  IF 1 = strlen(psz_word)
  THEN IF NULL # sc[psz_word] THEN psz_word ELSE NULL
  ELSE find_command(psz_word)

\* cmd.c:307-320: no slot NULLs the call; otherwise the slot's func gets the
\* line after the word, without its leading blanks (cmd.c:314-317)
dispatch(sc, w, command) ==
  [word |-> w.word,
   command |-> command,
   func |-> IF command = NULL THEN NULL ELSE sc[command],
   args |-> IF command = NULL THEN NULL
            ELSE DropFirst(w.rest, LeadingBlanks(w.rest))]

execute_word(sc, w) == dispatch(sc, w, resolve(sc, w.word))

\* cmd.c:292-321 up to the call: the word, the slot and the argument text
execute_line(sc, psz_line) == execute_word(sc, get_word(psz_line))

(***************************************************************************)
(* Control signals (debug_return_t) and the handlers' results.             *)
(***************************************************************************)
debug_readloop == "debug_readloop"
debug_cmd_error == "debug_cmd_error"
continue_execution == "continue_execution"
quit_debugger == "quit_debugger"

ControlSignal ==
  {debug_readloop, debug_cmd_error, continue_execution, quit_debugger}

continue_looping_readloop_only(sig) == sig = debug_readloop

\* cmd.c:512: the loop condition
continue_looping(sig) == sig = debug_readloop \/ sig = debug_cmd_error

\* the signals a handler may return: the quit command asks to quit the
\* debugger, every other handler returns one signal of the enumeration
handler_signals(func) ==
  IF func = "dbg_cmd_quit" THEN {quit_debugger} ELSE ControlSignal

(***************************************************************************)
(* The set command: set.h:31-128, and dbg_cmd_set_var: cmd.c:348-383.      *)
(***************************************************************************)
\* set.h:31-62: the options and the flag each one names
SubCmd(name, var) == [name |-> name, var |-> var]

set_subcommands ==
  << SubCmd("basename", "basename_filenames"),
     SubCmd("debug", "db_level"),
     SubCmd("ignore-errors", "ignore_errors_flag"),
     SubCmd("keep-going", "keep_going_flag"),
     SubCmd("silent", "silent_flag"),
     SubCmd("trace", "no_shell_trace") >>

FlagNames == { set_subcommands[i].var : i \in 1..Len(set_subcommands) }

\* is_abbrev_of(psz_substr, psz_word, i_min): psz_substr is a prefix of
\* psz_word and has at least i_min characters
is_abbrev_of(psz_substr, psz_word, i_min) ==
  /\ strlen(psz_substr) >= i_min
  /\ strlen(psz_substr) <= strlen(psz_word)
  /\ SubSeq(psz_word, 1, strlen(psz_substr)) = psz_substr

\* on_off_toggle(psz_onoff, &var): "on" sets var, "off" resets it, "toggle"
\* flips it, any other text leaves it
on_off_toggle(fl, psz_onoff, var) ==
  [fl EXCEPT ![var] = IF psz_onoff = "on" THEN 1
                      ELSE IF psz_onoff = "off" THEN 0
                      ELSE IF psz_onoff = "toggle"
                      THEN (IF @ = 0 THEN 1 ELSE 0)
                      ELSE @]

Digits == "0123456789"

IsDigit(c) == \E d \in 1..Len(Digits) : CharAt(Digits, d) = c

\* the value of a string of decimal digits
RECURSIVE DecimalValue(_)
DecimalValue(s) ==
  IF s = "" THEN 0
  ELSE 10 * DecimalValue(SubSeq(s, 1, Len(s) - 1))
       + (Ord(CharAt(s, Len(s))) - Ord("0"))

\* get_int(psz_arg, &result, warn): whether psz_arg spells a number, and
\* the number
get_int(psz_arg) ==
  IF strlen(psz_arg) > 0
     /\ \A i \in 1..Len(psz_arg) : IsDigit(CharAt(psz_arg, i))
  THEN [ok |-> TRUE, result |-> DecimalValue(psz_arg)]
  ELSE [ok |-> FALSE, result |-> 0]

\* set.h:77-78, cmd.c:357-358: "*psz_args += 1" adds one to the character
\* psz_args points at while that character is a blank; the pointer stays
incr_char(c) == IF c = " " THEN "!" ELSE "\n"

skip_blanks(psz_args) ==
  IF strlen(psz_args) > 0 /\ whitespace(CharAt(psz_args, 1))
  THEN incr_char(CharAt(psz_args, 1)) \o DropFirst(psz_args, 1)
  ELSE psz_args

\* The variable set: a variable is found by the first length characters of
\* its name and that length.
VarKey(name, length) ==
  [name |-> SubSeq(name, 1, IF length < Len(name) THEN length ELSE Len(name)),
   length |-> length]

\* a NULL variable_t pointer
NoVariable == [name |-> NULL, length |-> 0]

\* lookup_variable(name, length): the variable (here its key), or NULL
lookup_variable(vs, name, length) ==
  IF VarKey(name, length) \in DOMAIN vs THEN VarKey(name, length)
  ELSE NoVariable

\* try_without_dollar(psz_varname): the lookup repeated without the leading $
try_without_dollar(vs, psz_varname) ==
  IF strlen(psz_varname) > 0 /\ CharAt(psz_varname, 1) = "$"
  THEN lookup_variable(vs, DropFirst(psz_varname, 1),
                       strlen(psz_varname) - 1)
  ELSE NoVariable

\* define_variable_in_set(name, length, value, ...): the variable with this
\* name and length gets the value
define_variable_in_set(vs, name, length, value) ==
  [k \in DOMAIN vs \cup {VarKey(name, length)} |->
     IF k = VarKey(name, length) THEN value ELSE vs[k]]

\* position of the first ")" of s, 0 when there is none
RECURSIVE CloseParen(_, _)
CloseParen(s, i) ==
  IF i > Len(s) THEN 0
  ELSE IF CharAt(s, i) = ")" THEN i ELSE CloseParen(s, i + 1)

\* variable_expand(line): every reference $(NAME) replaced by the value of
\* NAME, by nothing when there is no such variable
RECURSIVE variable_expand(_, _)
variable_expand(vs, line) ==
  IF line = "" THEN ""
  ELSE IF Len(line) >= 2 /\ SubSeq(line, 1, 2) = "$("
          /\ CloseParen(line, 3) > 0
  THEN (IF lookup_variable(vs, SubSeq(line, 3, CloseParen(line, 3) - 1),
                           CloseParen(line, 3) - 3) = NoVariable
        THEN ""
        ELSE vs[VarKey(SubSeq(line, 3, CloseParen(line, 3) - 1),
                       CloseParen(line, 3) - 3)])
       \o variable_expand(vs, DropFirst(line, CloseParen(line, 3)))
  ELSE CharAt(line, 1) \o variable_expand(vs, DropFirst(line, 1))

\* cmd.c:363-367, 373-376: the write, under the found variable's name and
\* the length u_len of the word typed
set_var_write(vs, p_v, u_len, psz_args, expand) ==
  define_variable_in_set(vs, p_v.name, u_len,
                         IF expand # 0 THEN variable_expand(vs, psz_args)
                         ELSE psz_args)

set_var_word_creates(vs, w, psz_args, expand) ==
  define_variable_in_set(vs, w, strlen(w), psz_args)

\* cmd.c:354-380
set_var_word(vs, w, psz_args, expand) ==
  IF lookup_variable(vs, w, strlen(w)) # NoVariable
  THEN set_var_write(vs, lookup_variable(vs, w, strlen(w)), strlen(w),
                     psz_args, expand)
  ELSE IF try_without_dollar(vs, w) # NoVariable
  THEN set_var_write(vs, try_without_dollar(vs, w), strlen(w),
                     psz_args, expand)
  ELSE vs

\* cmd.c:348-383, the variable set it leaves
dbg_cmd_set_var(vs, psz_args, expand) ==
  IF psz_args = NULL \/ 0 = strlen(psz_args) THEN vs
  ELSE set_var_word(vs, get_word(psz_args).word,
                    skip_blanks(get_word(psz_args).rest), expand)

SetResult(fl, vs) == [flags |-> fl, variable_set |-> vs]

\* set.h:88-91 and its like: no argument text means "toggle"
on_off_arg(psz_args) ==
  IF psz_args = NULL \/ 0 = strlen(psz_args) THEN "toggle" ELSE psz_args

\* set.h:80-125: the option chosen by psz_varname
set_option(fl, vs, psz_varname, psz_args) ==
  IF is_abbrev_of(psz_varname, "variable", 3)
  THEN SetResult(fl, dbg_cmd_set_var(vs, psz_args, 3))
  ELSE IF is_abbrev_of(psz_varname, "basename", 4)
  THEN SetResult(on_off_toggle(fl, on_off_arg(psz_args),
                               "basename_filenames"), vs)
  ELSE IF is_abbrev_of(psz_varname, "debug", 3)
  THEN SetResult(IF get_int(psz_args).ok
                 THEN [fl EXCEPT !["db_level"] = get_int(psz_args).result]
                 ELSE fl, vs)
  ELSE IF is_abbrev_of(psz_varname, "ignore-errors", 3)
  THEN SetResult(on_off_toggle(fl, on_off_arg(psz_args),
                               "ignore_errors_flag"), vs)
  ELSE IF is_abbrev_of(psz_varname, "keep-going", 3)
  THEN SetResult(on_off_toggle(fl, on_off_arg(psz_args),
                               "keep_going_flag"), vs)
  ELSE IF is_abbrev_of(psz_varname, "silent", 3)
  THEN SetResult(on_off_toggle(fl, on_off_arg(psz_args), "silent_flag"), vs)
  ELSE IF is_abbrev_of(psz_varname, "trace", 3)
  THEN SetResult(IF psz_args = NULL \/ 0 = strlen(psz_args)
                 THEN on_off_toggle(fl, "toggle", "no_shell_trace")
                 ELSE on_off_toggle(fl, psz_args, "silent_flag"), vs)
  ELSE SetResult(fl, dbg_cmd_set_var(vs, psz_args, 1))

\* set.h:64-128: the flags and the variable set dbg_cmd_set leaves; it
\* returns debug_readloop on every path
dbg_cmd_set(fl, vs, psz_args) ==
  IF psz_args = NULL \/ 0 = strlen(psz_args) THEN SetResult(fl, vs)
  ELSE set_option(fl, vs, get_word(psz_args).word,
                  skip_blanks(get_word(psz_args).rest))

(***************************************************************************)
(* enter_debugger: cmd.c:398-557.                                          *)
(***************************************************************************)
Targets == {"t1"}

BRK_TEMP == "BRK_TEMP"
BRK_ACTIVE == "BRK_ACTIVE"
BRK_NONE == {}
BrkMasks == SUBSET {BRK_ACTIVE, BRK_TEMP}

DEBUGGER_QUIT_RC == "DEBUGGER_QUIT_RC"

DEBUG_BRKPT_AFTER_CMD == "DEBUG_BRKPT_AFTER_CMD"
DEBUG_BRKPT_BEFORE_PREREQ == "DEBUG_BRKPT_BEFORE_PREREQ"
DEBUG_BRKPT_AFTER_PREREQ == "DEBUG_BRKPT_AFTER_PREREQ"
Reasons ==
  {DEBUG_BRKPT_AFTER_CMD, DEBUG_BRKPT_BEFORE_PREREQ, DEBUG_BRKPT_AFTER_PREREQ,
   "DEBUG_ERROR_HIT", "DEBUG_FATAL_HIT", "DEBUG_EXPLICIT_CALL"}

\* last_stop_reason before the first call (a zero-initialised global)
NoReason == "0"

\* error codes: none, soft error, termination reached, fatal(1)
ErrCodes == {0, -1, -2, 1}


VARIABLES
  in_debugger,          \* "false", "true" or DEBUGGER_QUIT_RC
  i_debugger_stepping,
  i_debugger_nexting,
  debugger_on_error,
  makelevel,
  tracing,              \* p_target->tracing of every target
  last_stop_reason,
  b_init,
  short_command,        \* the func of every slot
  psz_debugger_args,
  pc,                   \* "build": in the build engine; "loop": in the read
                        \* loop of enter_debugger; "crashed"
  debug_return,
  retval,               \* what the last call of enter_debugger returned
  p_target,             \* the arguments of the last call of enter_debugger
  errcode,
  skipped,              \* history: the stops counted and passed over since
                        \* the debugger last gave control back
  cleared,              \* history: the last clearing of a temporary
                        \* breakpoint
  open_depth,           \* the nesting glyphs of the prompt, as last made
  close_depth,
  flags,                \* the flags the set command writes, by name
  variable_set,         \* the value of every variable
  called                \* history: what the last pass of the loop called

vars == <<in_debugger, i_debugger_stepping, i_debugger_nexting,
          debugger_on_error, makelevel, tracing, last_stop_reason, b_init,
          short_command, psz_debugger_args, pc, debug_return, retval,
          p_target, errcode, skipped, cleared, open_depth, close_depth,
          flags, variable_set, called>>

\* what a pass of the loop called: the word typed, the slot, the handler, its
\* argument text, the signal it returned and how the call ended ("returned"; "discarded": its result was
\* dropped; "jumped": it jumped back to debugger_loop; "unknown": no handler)
Called(word, command, func, args, signal, how) ==
  [word |-> word, command |-> command, func |-> func, args |-> args,
   signal |-> signal, how |-> how]

NoCall == Called(NULL, NULL, NULL, NULL, NULL, "none")

\* the last clearing of a temporary breakpoint: the target and the reason
Clearing(target, reason) == [target |-> target, reason |-> reason]

NoClearing == Clearing(NULL, NULL)

\* the makefile's variables when the debugger is first entered
variable_set_init ==
  [k \in {VarKey("FOO", 3), VarKey("BAZ", 3)} |->
     IF k.name = "FOO" THEN "old" ELSE "qux"]

\* the state before the first call, the counters, the stop-on-error
\* setting, the recursion level and the breakpoints drawn from the given sets
InitOver(counts, settings, levels, masks) ==
  /\ in_debugger = "false"
  /\ i_debugger_stepping \in counts
  /\ i_debugger_nexting \in counts
  /\ debugger_on_error \in settings
  /\ makelevel \in levels
  /\ tracing \in [Targets -> masks]
  /\ last_stop_reason = NoReason
  /\ b_init = FALSE
  /\ short_command = short_command_init
  /\ psz_debugger_args = NULL
  /\ pc = "build"
  /\ debug_return = debug_readloop
  /\ retval = NULL
  /\ p_target = NULL
  /\ errcode = 0
  /\ skipped = 0
  /\ cleared = NoClearing
  /\ open_depth = ""
  /\ close_depth = ""
  /\ flags = [f \in FlagNames |-> 0]
  /\ variable_set = variable_set_init
  /\ called = NoCall

guaranteed_quit_tests_true(in_dbg) == in_dbg = "true"

\* cmd.c:411
guaranteed_quit(in_dbg) == in_dbg = DEBUGGER_QUIT_RC

counting_from_one(stepping, nexting) == stepping >= 1 \/ nexting >= 1

\* cmd.c:415
counting(stepping, nexting) == stepping > 1 \/ nexting > 1

decrement_always(count) == count - 1

\* cmd.c:418-419: if (count) count--
decrement(count) == IF count # 0 THEN count - 1 ELSE count

nothing_to_stop_for_no_target(on_error, stepping, nexting, target, trace, code) ==
  /\ ~on_error
  /\ ~(stepping # 0 \/ nexting # 0)
  /\ trace = BRK_NONE /\ -2 # code

\* cmd.c:421-423
nothing_to_stop_for(on_error, stepping, nexting, target, trace, code) ==
  /\ ~on_error
  /\ ~(stepping # 0 \/ nexting # 0)
  /\ target # NULL /\ trace = BRK_NONE /\ -2 # code

clears_temp_after_cmd_only(reason) == reason = DEBUG_BRKPT_AFTER_CMD

\* cmd.c:428-433: the reasons for which a temporary breakpoint is cleared
clears_temp(reason) ==
  reason \in {DEBUG_BRKPT_AFTER_CMD, DEBUG_BRKPT_BEFORE_PREREQ,
              DEBUG_BRKPT_AFTER_PREREQ}

\* cmd.c:427-436
clear_temporary(trace, target, reason) ==
  IF target # NULL /\ BRK_TEMP \in trace[target] /\ clears_temp(reason)
  THEN [trace EXCEPT ![target] = BRK_NONE]
  ELSE trace

in_debugger_on_entry_any_level(code, level) ==
  IF -2 = code THEN DEBUGGER_QUIT_RC ELSE "true"

\* cmd.c:396
MAX_NEST_DEPTH == 10

\* n times the character c
RECURSIVE Repeat(_, _)
Repeat(c, n) == IF n <= 0 THEN "" ELSE c \o Repeat(c, n - 1)

\* cmd.c:472-475: the value of i when the loop ends, which is the number of
\* glyphs written
depth_loop_end(level) ==
  IF level + 1 < MAX_NEST_DEPTH - 5 THEN level + 1 ELSE MAX_NEST_DEPTH - 5

\* cmd.c:472-483: open_depth (c is "<") or close_depth (c is ">")
render_depth(c, level) ==
  Repeat(c, depth_loop_end(level))
  \o (IF MAX_NEST_DEPTH - 5 = depth_loop_end(level) THEN "..." ELSE "")

\* cmd.c:485-506: in_debugger once the banner is printed
in_debugger_on_entry(code, level) ==
  IF -2 = code /\ 0 # level THEN DEBUGGER_QUIT_RC ELSE "true"

\* cmd.c:553-554
in_debugger_on_exit(in_dbg) ==
  IF in_dbg # DEBUGGER_QUIT_RC THEN "false" ELSE in_dbg

\* cmd.c:412, 420, 424: return continue_execution without entering the loop
ResumeSilently ==
  /\ retval' = continue_execution
  /\ UNCHANGED <<in_debugger, tracing, b_init, short_command, pc,
                 debug_return, psz_debugger_args, cleared, open_depth,
                 close_depth>>

\* cmd.c:426-511: the call engages and reaches the read loop
Engage(target, code) ==
  /\ tracing' = clear_temporary(tracing, target, last_stop_reason')
  /\ cleared' = IF tracing' # tracing
                THEN Clearing(target, last_stop_reason') ELSE cleared
  /\ b_init' = TRUE
  /\ short_command' = IF ~b_init THEN cmd_initialize(short_command)
                      ELSE short_command
  /\ open_depth' = render_depth("<", makelevel)
  /\ close_depth' = render_depth(">", makelevel)
  /\ in_debugger' = in_debugger_on_entry(code, makelevel)
  /\ debug_return' = debug_readloop
  /\ pc' = "loop"
  /\ retval' = NULL
  /\ UNCHANGED psz_debugger_args

\* cmd.c:420 with p_target == NULL reads through a null pointer: the call
\* faults, or goes on with whatever it read
NullTargetRead(code) ==
  \/ /\ pc' = "crashed"
     /\ UNCHANGED <<in_debugger, tracing, b_init, short_command,
                    debug_return, psz_debugger_args, retval, skipped,
                    cleared, open_depth, close_depth>>
  \/ ResumeSilently /\ skipped' = skipped + 1
  \/ Engage(NULL, code) /\ UNCHANGED skipped

\* cmd.c:398-511: one call of enter_debugger by the build engine
EnterDebugger(target, code, reason) ==
  /\ pc = "build"
  /\ p_target' = target
  /\ errcode' = code
  /\ last_stop_reason' = reason
  /\ called' = NoCall
  /\ UNCHANGED <<debugger_on_error, makelevel, flags, variable_set>>
  /\ IF guaranteed_quit(in_debugger)
     THEN /\ UNCHANGED <<i_debugger_stepping, i_debugger_nexting, skipped>>
          /\ ResumeSilently
     ELSE IF counting(i_debugger_stepping, i_debugger_nexting)
     THEN /\ i_debugger_stepping' = decrement(i_debugger_stepping)
          /\ i_debugger_nexting' = decrement(i_debugger_nexting)
          /\ IF target = NULL
             THEN NullTargetRead(code)
             ELSE IF tracing[target] = BRK_NONE
             THEN ResumeSilently /\ skipped' = skipped + 1
             ELSE Engage(target, code) /\ UNCHANGED skipped
     ELSE /\ UNCHANGED <<i_debugger_stepping, i_debugger_nexting, skipped>>
          /\ IF nothing_to_stop_for(debugger_on_error, i_debugger_stepping,
                                    i_debugger_nexting, target,
                                    IF target = NULL THEN BRK_NONE
                                    ELSE tracing[target], code)
             THEN ResumeSilently
             ELSE Engage(target, code)

\* cmd.c:511-512, 553-556: the loop condition after a pass that left sig in
\* debug_return, and the return when it fails
LoopTest(sig) ==
  /\ debug_return' = sig
  /\ IF continue_looping(sig)
     THEN /\ pc' = "loop"
          /\ UNCHANGED <<in_debugger, retval, skipped>>
     ELSE /\ pc' = "build"
          /\ in_debugger' = in_debugger_on_exit(in_debugger)
          /\ retval' = sig
          /\ skipped' = 0

LoopFrame ==
  UNCHANGED <<i_debugger_stepping, i_debugger_nexting, debugger_on_error,
              makelevel, tracing, last_stop_reason, b_init, short_command,
              p_target, errcode, cleared, open_depth, close_depth>>

after_jump_clobbered(sig) == continue_execution

\* cmd.c:402: debug_return is volatile, so the jump back to debugger_loop
\* finds in it the value the pass started with
after_jump(sig) == sig

\* cmd.c:538-541: a non-empty line is dispatched by execute_line
ReadCommand(line) ==
  /\ pc = "loop"
  /\ \E x \in {execute_line(short_command, line)} :
       IF x.command = NULL
       THEN /\ LoopTest(debug_readloop)
            /\ called' = Called(x.word, NULL, NULL, NULL, NULL, "unknown")
            /\ UNCHANGED <<psz_debugger_args, flags, variable_set>>
       ELSE /\ psz_debugger_args' = x.args
            /\ IF x.func = "dbg_cmd_set"
               THEN \E r \in {dbg_cmd_set(flags, variable_set, x.args)} :
                      /\ flags' = r.flags
                      /\ variable_set' = r.variable_set
                      /\ called' = Called(x.word, x.command, x.func, x.args,
                                          debug_readloop, "returned")
                      /\ LoopTest(debug_readloop)
               ELSE /\ \E sig \in handler_signals(x.func) :
                         /\ called' = Called(x.word, x.command, x.func,
                                             x.args, sig, "returned")
                         /\ LoopTest(sig)
                    /\ UNCHANGED <<flags, variable_set>>
  /\ LoopFrame

ReadEmptyLine_drops ==
  /\ pc = "loop"
  /\ \E sig \in handler_signals("dbg_cmd_step") :
       called' = Called("", NULL, "dbg_cmd_step", "", sig, "returned")
  /\ LoopTest(debug_return)
  /\ UNCHANGED <<psz_debugger_args, flags, variable_set>>
  /\ LoopFrame

\* cmd.c:542-545: an empty line
ReadEmptyLine ==
  /\ pc = "loop"
  /\ \E sig \in handler_signals("dbg_cmd_step") :
       /\ called' = Called("", NULL, "dbg_cmd_step", "", sig, "returned")
       /\ LoopTest(sig)
  /\ UNCHANGED <<psz_debugger_args, flags, variable_set>>
  /\ LoopFrame

\* cmd.c:547-549: no line could be read
ReadEndOfInput ==
  /\ pc = "loop"
  /\ \E sig \in handler_signals("dbg_cmd_quit") :
       called' = Called(NULL, NULL, "dbg_cmd_quit", NULL, sig, "discarded")
  /\ LoopTest(debug_return)
  /\ UNCHANGED <<psz_debugger_args, flags, variable_set>>
  /\ LoopFrame

\* cmd.c:517-518: a handler jumps back to debugger_loop; setjmp returns
\* nonzero, the message is printed and the pass ends with debug_return (a
\* volatile) as the pass found it
DispatchFault(line) ==
  /\ pc = "loop"
  /\ \E x \in {execute_line(short_command, line)} :
       /\ x.command # NULL
       /\ psz_debugger_args' = x.args
       /\ called' = Called(x.word, x.command, x.func, x.args, NULL, "jumped")
  /\ LoopTest(after_jump(debug_return))
  /\ UNCHANGED <<flags, variable_set>>
  /\ LoopFrame

\* the steps of the program, the build engine's calls and the lines typed
\* at the prompt drawn from the given sets
NextOver(targets, codes, reasons, lines) ==
  \/ \E target \in targets, code \in codes, reason \in reasons :
       EnterDebugger(target, code, reason)
  \/ \E line \in lines : ReadCommand(line)
  \/ ReadEmptyLine
  \/ ReadEndOfInput
  \/ \E line \in lines : DispatchFault(line)

AnyTarget == Targets \cup {NULL}

\* The stepping decisions: every counter value, setting and breakpoint,
\* every target and error code, in a nested make (where the guaranteed-quit
\* state is reached).
InitStep == InitOver(0..MaxCount, BOOLEAN, {MaxMakeLevel}, BrkMasks)

NextStep ==
  NextOver(AnyTarget, ErrCodes, {DEBUG_BRKPT_AFTER_CMD}, {"quit"})

SpecStep == InitStep /\ [][NextStep]_vars

\* The effects of stopping: every reason, error code, breakpoint and
\* recursion level, with the counters inactive (0) or counting (2).
InitStop == InitOver({0, 2}, BOOLEAN, 0..MaxMakeLevel, BrkMasks)

NextStop == NextOver(Targets, ErrCodes, Reasons, {"quit"})

SpecStop == InitStop /\ [][NextStop]_vars

\* The read loop: every call stops (both counters are 1), and the lines typed
\* are the aliases, the commands they stand for, shortcuts and unknown words.
LoopLines ==
  { aliases[i].alias : i \in 1..Len(aliases) } \cup
  { aliases[i].command : i \in 1..Len(aliases) } \cup
  {"h", "q  1", "step 3", "frob", "z", "bt  2"}

InitLoop == InitOver({1}, {FALSE}, 0..MaxMakeLevel, {BRK_NONE})

NextLoop == NextOver(Targets, {0, -2}, {DEBUG_BRKPT_AFTER_CMD}, LoopLines)

SpecLoop == InitLoop /\ [][NextLoop]_vars

\* The options of the set command: the debugger stops at every call and the
\* lines typed are set commands, every option with every argument.
OnOffArgs == {"", " on", " off", " toggle"}

SetLines ==
  { "set " \o set_subcommands[i].name \o a :
      i \in 1..Len(set_subcommands), a \in OnOffArgs } \cup
  {"set", "quit"}

InitSet == InitOver({1}, {FALSE}, {0}, {BRK_NONE})

NextSet == NextOver(Targets, {0}, {DEBUG_BRKPT_AFTER_CMD}, SetLines)

SpecSet == InitSet /\ [][NextSet]_vars

\* Setting values: the lines typed are set commands that name a variable, or
\* an option and a value that is not a plain on, off or toggle.
SetVarLines ==
  {"set variable FOO bar", "set variable $FOO bar", "set var FOO $(BAZ)",
   "set var BAZ  x", "set variable NONE bar", "set variable $NONE bar",
   "set FOO bar", "set variable",
   "set debug 3", "set tra  on", "quit"}

NextSetVar == NextOver(Targets, {0}, {DEBUG_BRKPT_AFTER_CMD}, SetVarLines)

SpecSetVar == InitSet /\ [][NextSetVar]_vars

\* The counters: as the stepping decisions, from counters that are both
\* active, so that a counter at 0 is one enter_debugger has brought there.
InitCount == InitOver(1..MaxCount, BOOLEAN, {MaxMakeLevel}, BrkMasks)

SpecCount == InitCount /\ [][NextStep]_vars

\* The prompt: the debugger stops at every call, at every recursion level
\* up to MaxPromptLevel.
PromptLines == {"step", "quit", "where"}

InitPrompt == InitOver({1}, {FALSE}, 0..MaxPromptLevel, {BRK_NONE})

NextPrompt ==
  NextOver(Targets, {0, -1}, {DEBUG_BRKPT_AFTER_CMD}, PromptLines)

SpecPrompt == InitPrompt /\ [][NextPrompt]_vars

(***************************************************************************)
(* Claims about the stepping decisions and the effects of stopping.        *)
(***************************************************************************)
\* a step of the build engine calling enter_debugger on a target that is
\* present and carries no trace flag, outside the guaranteed-quit state
UntracedCall ==
  /\ pc = "build"
  /\ ~guaranteed_quit(in_debugger)
  /\ p_target' # NULL
  /\ tracing[p_target'] = BRK_NONE

Silent == pc' = "build" /\ retval' = continue_execution

Engaged == pc' = "loop"

\* C1 as the spec states it: from stepCount 3 and nextCount 0 the first three
\* calls on an untraced target resume silently, leaving stepCount at 2, 1 and
\* 0, and the fourth call, which finds 0, is the first to engage the loop.
C1_ThreeSilentCalls ==
  [][(UntracedCall /\ i_debugger_nexting = 0)
     => /\ i_debugger_stepping = 3
           => Silent /\ i_debugger_stepping' = 2
        /\ i_debugger_stepping = 2
           => Silent /\ i_debugger_stepping' = 1
        /\ i_debugger_stepping = 1
           => Silent /\ i_debugger_stepping' = 0
        /\ (i_debugger_stepping = 0 /\ skipped = 3) => Engaged]_vars

\* C1 amended: from stepCount 3 and nextCount 0 the first two calls on an
\* untraced target resume silently, leaving stepCount at 2 and then 1; the
\* third call, which finds stepCount 1, engages the loop and leaves stepCount
\* at 1.  nextCount stays 0 throughout.
C1_TwoSilentCalls ==
  [][(UntracedCall /\ i_debugger_nexting = 0)
     => /\ i_debugger_nexting' = 0
        /\ i_debugger_stepping = 3
           => Silent /\ i_debugger_stepping' = 2
        /\ i_debugger_stepping = 2
           => Silent /\ i_debugger_stepping' = 1
        /\ i_debugger_stepping = 1
           => Engaged /\ i_debugger_stepping' = 1]_vars

\* the third call in a row has engaged, two stops having been passed over
C1_Witness ==
  /\ pc = "loop"
  /\ skipped = 2
  /\ i_debugger_stepping = 1
  /\ i_debugger_nexting = 0
  /\ p_target # NULL
  /\ tracing[p_target] = BRK_NONE
  /\ ~debugger_on_error
  /\ errcode = 0

\* C5: a call that engages on a target whose trace flags include the
\* temporary bit clears the target's flags if and only if the reason is
\* after-command, before-prerequisite or after-prerequisite, and no other
\* step changes any target's flags; the next call on that target for that
\* reason finds no trace flag, so it stops only for what stops a call on a
\* target without breakpoint: an active counter, stop-on-error or the
\* termination code.
C5_TemporaryIsOneShot ==
  [][/\ \A t \in Targets :
          tracing'[t] =
            IF /\ pc = "build" /\ Engaged /\ p_target' = t
               /\ BRK_TEMP \in tracing[t]
               /\ last_stop_reason' \in
                    {DEBUG_BRKPT_AFTER_CMD, DEBUG_BRKPT_BEFORE_PREREQ,
                     DEBUG_BRKPT_AFTER_PREREQ}
            THEN BRK_NONE
            ELSE tracing[t]
     /\ (/\ pc = "build" /\ cleared # NoClearing
         /\ p_target' = cleared.target
         /\ last_stop_reason' = cleared.reason)
        => /\ tracing[cleared.target] = BRK_NONE
           /\ Engaged <=>
                /\ ~guaranteed_quit(in_debugger)
                /\ i_debugger_stepping <= 1 /\ i_debugger_nexting <= 1
                /\ \/ i_debugger_stepping = 1 \/ i_debugger_nexting = 1
                   \/ debugger_on_error \/ errcode' = -2]_vars

\* a temporary breakpoint was cleared and the next call on the target, for
\* the same reason, resumed silently
C5_Witness ==
  /\ pc = "build"
  /\ cleared = Clearing(p_target, DEBUG_BRKPT_AFTER_CMD)
  /\ last_stop_reason = DEBUG_BRKPT_AFTER_CMD
  /\ called = NoCall
  /\ retval = continue_execution
  /\ in_debugger = "false"
  /\ tracing[p_target] = BRK_NONE

\* C6: in the guaranteed-quit state every call resumes silently: it returns
\* continue_execution without entering the loop and leaves the counters, the
\* trace flags and the quit state as they are.
C6_QuitIsFinal ==
  [][(pc = "build" /\ in_debugger = DEBUGGER_QUIT_RC)
     => /\ Silent
        /\ i_debugger_stepping' = i_debugger_stepping
        /\ i_debugger_nexting' = i_debugger_nexting
        /\ tracing' = tracing
        /\ in_debugger' = DEBUGGER_QUIT_RC]_vars

\* a call made in the guaranteed-quit state (the call that entered the state
\* had error code -2) on a traced target with a counter at 1 has returned
C6_Witness ==
  /\ pc = "build"
  /\ in_debugger = DEBUGGER_QUIT_RC
  /\ errcode = -1
  /\ retval = continue_execution
  /\ p_target # NULL
  /\ tracing[p_target] # BRK_NONE
  /\ i_debugger_stepping = 1

\* C7: while a call that engaged with error code -2 is in the loop, the
\* debugger is in the guaranteed-quit state at a nested level and not at
\* the top level; when that call returns, the state is kept at a nested level
\* and in_debugger is false at the top level.
C7_TerminationAtLevel ==
  /\ [](pc = "loop" /\ errcode = -2
        => in_debugger = IF makelevel > 0 THEN DEBUGGER_QUIT_RC ELSE "true")
  /\ [][(pc = "loop" /\ errcode = -2 /\ pc' = "build")
        => in_debugger' = IF makelevel > 0 THEN DEBUGGER_QUIT_RC
                          ELSE "false"]_vars

\* a call that engaged with error code -2 at a nested level has returned
C7_Witness ==
  /\ pc = "build"
  /\ errcode = -2
  /\ retval = quit_debugger
  /\ makelevel > 0
  /\ in_debugger = DEBUGGER_QUIT_RC

\* C8: a call that resumes silently leaves last_stop_reason as it was.
C8_SilentKeepsStopReason ==
  [][(pc = "build" /\ pc' = "build")
     => last_stop_reason' = last_stop_reason]_vars

(***************************************************************************)
(* Claims about the command resolver and the read loop.                    *)
(***************************************************************************)
\* the last pass of the loop read a line whose first word is w
Typed(w) == called.word = w /\ called.how \in {"returned", "jumped", "unknown"}

\* C2: for every entry of the aliases table, a line that is the alias is
\* dispatched to the slot the canonical command name is dispatched to, and is
\* never reported as no such command.
C2_AliasReachesCommand ==
  \A i \in 1..Len(aliases) :
    Typed(aliases[i].alias)
    => /\ called.how # "unknown"
       /\ called.command =
            execute_line(short_command, aliases[i].command).command

\* C3: a pass of the loop that cannot read a line ends as the quit command
\* ends it: the quit handler's signal is the loop's control signal and the
\* loop is left.
C3_EndOfInputQuits ==
  (called.how = "discarded" /\ called.func = "dbg_cmd_quit")
  => /\ debug_return \in handler_signals("dbg_cmd_quit")
     /\ pc # "loop"

\* C4: after a pass in which a handler jumped back to debugger_loop the
\* debugger is still in the loop, with a continue-looping control signal;
\* enter_debugger has not returned.
C4_FaultStaysInLoop ==
  called.how = "jumped"
  => /\ pc = "loop"
     /\ continue_looping(debug_return)
     /\ retval = NULL

\* a handler has jumped back to debugger_loop
C4_Witness == called.how = "jumped" /\ called.func = "dbg_cmd_where"

(***************************************************************************)
(* Claims about the set command.                                           *)
(***************************************************************************)
\* this step dispatches "set <the i-th option><a>"
SetsOption(i, a) ==
  /\ pc = "loop"
  /\ called'.how = "returned"
  /\ called'.func = "dbg_cmd_set"
  /\ called'.args = set_subcommands[i].name \o a

\* C9: a set command naming an option, with on, off, toggle or no argument,
\* changes no flag but the one the option is bound to, and with no argument
\* it leaves the flags as the argument toggle leaves them.
C9_OptionWritesItsFlag ==
  [][\A i \in 1..Len(set_subcommands), a \in OnOffArgs :
       SetsOption(i, a)
       => /\ \A f \in FlagNames \ {set_subcommands[i].var} :
               flags'[f] = flags[f]
          /\ a = "" =>
               flags' = dbg_cmd_set(flags, variable_set,
                          set_subcommands[i].name \o " toggle").flags]_vars

\* C10: after "set variable FOO bar", and after "set variable $FOO bar", the
\* variable FOO reads bar, and no variable of another name or length has
\* been made.
C10_DollarWritesSameVariable ==
  (called.how = "returned" /\ called.func = "dbg_cmd_set"
     /\ called.args \in {"variable FOO bar", "variable $FOO bar"})
  => /\ variable_set[VarKey("FOO", 3)] = "bar"
     /\ DOMAIN variable_set = DOMAIN variable_set_init

\* this step dispatches "set variable<a>": dbg_cmd_set_var gets a without
\* its leading blank
SetsVariable(a) ==
  /\ pc = "loop"
  /\ called'.how = "returned"
  /\ called'.func = "dbg_cmd_set"
  /\ called'.args = "variable" \o a

\* the argument texts dbg_cmd_set_var is given: none, a variable that exists,
\* one found without its $, and two names found neither way
SetVarArgs == {"", " FOO bar", " $FOO bar", " NONE bar", " $NONE bar"}

\* neither lookup_variable nor try_without_dollar finds the name that psz
\* starts with
NotFound(psz) ==
  /\ lookup_variable(variable_set, get_word(psz).word,
                     strlen(get_word(psz).word)) = NoVariable
  /\ try_without_dollar(variable_set, get_word(psz).word) = NoVariable

\* C11: dbg_cmd_set_var returns debug_readloop, so the loop goes on, whether
\* the name is missing, found or not found; when the name is found neither
\* as given nor without its leading $, the variable set is left as it is.
C11_UnknownVariableDropped ==
  [][\A a \in SetVarArgs :
       SetsVariable(a)
       => /\ called'.signal = debug_readloop
          /\ debug_return' = debug_readloop
          /\ pc' = "loop"
          /\ NotFound(a) => variable_set' = variable_set]_vars

\* a set command naming a variable found neither way has been executed
C11_Witness ==
  /\ pc = "loop"
  /\ called.how = "returned"
  /\ called.args = "variable $NONE bar"
  /\ debug_return = debug_readloop

\* the word w is a shortcut with a handler, an alias or a command name
Registered(w) ==
  \/ 1 = strlen(w) /\ short_command[w] # NULL
  \/ \E i \in 1..Len(aliases) : aliases[i].alias = w
  \/ \E i \in 1..Len(commands) : commands[i].long_name = w

\* C12: a line whose first word is no shortcut with a handler, no alias and
\* no command name calls no handler, is reported as unknown and leaves the
\* loop's signal debug_readloop; a one-character word whose slot has a
\* handler is dispatched to that very slot.
C12_UnknownWordCallsNothing ==
  \A line \in LoopLines :
    Typed(get_word(line).word)
    => /\ ~Registered(get_word(line).word)
          => /\ called.how = "unknown"
             /\ called.func = NULL
             /\ debug_return = debug_readloop
             /\ pc = "loop"
       /\ (1 = strlen(get_word(line).word)
           /\ short_command[get_word(line).word] # NULL)
          => /\ called.how # "unknown"
             /\ called.command = get_word(line).word
             /\ called.func = short_command[get_word(line).word]

\* a line starting with a word that is registered nowhere has been read
C12_Witness ==
  /\ Typed("frob")
  /\ called.how = "unknown"
  /\ pc = "loop"

\* C13: a pass that reads an empty line calls the handler of the step
\* command, once, with the empty argument text, as the line "step" does, and
\* the signal the handler returns is the loop's signal.
C13_EmptyLineSteps ==
  called.word = ""
  => /\ called.how = "returned"
     /\ called.func = execute_line(short_command, "step").func
     /\ called.args = execute_line(short_command, "step").args
     /\ debug_return = called.signal
     /\ pc = "loop" <=> continue_looping(called.signal)

\* an empty line has been read and the step handler asked to go on with the
\* build
C13_Witness ==
  /\ called.word = ""
  /\ called.signal = continue_execution
  /\ pc = "build"

\* C14: after "set FOO bar", FOO being a variable and no option, FOO reads
\* bar.
C14_SecondFormSetsVariable ==
  (called.how = "returned" /\ called.func = "dbg_cmd_set"
     /\ called.args = "FOO bar")
  => variable_set[VarKey("FOO", 3)] = "bar"

(***************************************************************************)
(* Claims about termination, the loop's result and the stepping rules.     *)
(***************************************************************************)
\* C15: while a call that engaged with error code -2 at the top level
\* (makelevel 0) is in the loop, the debugger is in the guaranteed-quit
\* state.
C15_TopLevelForcedToQuit ==
  (pc = "loop" /\ errcode = -2 /\ makelevel = 0)
  => in_debugger = DEBUGGER_QUIT_RC

\* C16: the loop is left exactly when the signal of the last pass is not a
\* continue-looping value: what enter_debugger has returned is
\* continue_execution from a call that did not enter the loop, or the signal,
\* not a continue-looping one, that the last handler called returned.
C16_ReturnsTerminalSignal ==
  /\ pc = "loop" => debug_return \in {debug_readloop, debug_cmd_error}
  /\ (pc = "build" /\ retval # NULL)
     => /\ retval \notin {debug_readloop, debug_cmd_error}
        /\ \/ called = NoCall /\ retval = continue_execution
           \/ called.how = "returned" /\ retval = called.signal

\* the loop has been left on a handler's request to go on with the build
C16_Witness ==
  /\ pc = "build"
  /\ called.how = "returned"
  /\ called.func = "dbg_cmd_step"
  /\ retval = continue_execution

\* a step of the build engine calling enter_debugger outside the
\* guaranteed-quit state
LiveCall == pc = "build" /\ ~guaranteed_quit(in_debugger)

Quiet(no_trace) ==
  /\ ~debugger_on_error
  /\ i_debugger_stepping = 0 /\ i_debugger_nexting = 0
  /\ no_trace
  /\ errcode' # -2

\* C18 as the spec states it: in a call outside the guaranteed-quit state
\* with no counter greater than 1, the call resumes silently exactly when
\* stop-on-error is off, both counters are 0, no trace flag is carried (an
\* absent target carries none) and the error code is not -2, and engages
\* otherwise.
C18_SilentWhenQuiet ==
  [][(LiveCall /\ i_debugger_stepping <= 1 /\ i_debugger_nexting <= 1)
     => /\ Silent <=> Quiet(p_target' = NULL \/ tracing[p_target'] = BRK_NONE)
        /\ Engaged <=>
             ~Quiet(p_target' = NULL \/ tracing[p_target'] = BRK_NONE)]_vars

\* C18 amended: in a call outside the guaranteed-quit state with no counter
\* greater than 1, the call resumes silently exactly when stop-on-error is
\* off, both counters are 0, the target is present and carries no trace
\* flag, and the error code is not -2; it engages otherwise, so a counter at
\* 1, a trace flag, stop-on-error, error code -2 and an absent target each
\* force engagement.
C18_SilentWhenQuietOnTarget ==
  [][(LiveCall /\ i_debugger_stepping <= 1 /\ i_debugger_nexting <= 1)
     => /\ Silent <=> Quiet(p_target' # NULL /\ tracing[p_target'] = BRK_NONE)
        /\ Engaged <=>
             ~Quiet(p_target' # NULL /\ tracing[p_target'] = BRK_NONE)]_vars

\* a call without target has engaged with stop-on-error off, both counters 0
\* and error code 0
C18_Witness ==
  /\ pc = "loop"
  /\ called = NoCall
  /\ p_target = NULL
  /\ ~debugger_on_error
  /\ i_debugger_stepping = 0 /\ i_debugger_nexting = 0
  /\ errcode = 0

\* C20: a call of enter_debugger without target resumes silently or engages,
\* whatever the counters, the stop-on-error setting, the error code and the
\* reason are.
C20_AbsentTargetDecides ==
  [][(pc = "build" /\ p_target' = NULL)
     => (Silent \/ Engaged)]_vars

(***************************************************************************)
(* Claims about the prompt.                                                *)
(***************************************************************************)
\* the glyphs the spec gives recursion level L: L + 1 glyphs c when that is
\* at most 5, else 5 glyphs and the overflow marker
SpecGlyphs(c, L) ==
  IF L + 1 > 5 THEN Repeat(c, 5) \o "..." ELSE Repeat(c, L + 1)

\* C19: in the loop the prompt's glyphs are makelevel + 1 times "<" and ">"
\* when that is at most 5, and 5 of each followed by "..." only when
\* makelevel + 1 is more than 5; with its terminator each sequence fits in
\* MAX_NEST_DEPTH characters.
C19_PromptDepth ==
  pc = "loop"
  => /\ open_depth = SpecGlyphs("<", makelevel)
     /\ close_depth = SpecGlyphs(">", makelevel)
     /\ Len(open_depth) + 1 <= MAX_NEST_DEPTH
     /\ Len(close_depth) + 1 <= MAX_NEST_DEPTH

(***************************************************************************)
(* Claims about the counters.                                              *)
(***************************************************************************)
\* in this step the counter goes from count to count_after: a counter at 0
\* stays at 0, and a counter comes to 0 only in a call of enter_debugger,
\* from 1, the other counter being greater than 1
CounterStep(count, count_after, other) ==
  /\ count = 0 => count_after = 0
  /\ (count # 0 /\ count_after = 0)
     => (pc = "build" /\ count = 1 /\ other > 1)

\* C21: stepCount and nextCount, not negative at first, are never negative;
\* no step takes a counter that is 0 away from 0, and a counter comes to 0
\* only by a call of enter_debugger that finds it at 1 and the other counter
\* greater than 1.
C21_CountersStayNonNegative ==
  /\ [](i_debugger_stepping >= 0 /\ i_debugger_nexting >= 0)
  /\ [][/\ CounterStep(i_debugger_stepping, i_debugger_stepping',
                       i_debugger_nexting)
        /\ CounterStep(i_debugger_nexting, i_debugger_nexting',
                       i_debugger_stepping)]_vars

\* after two calls that counted and resumed silently, stepCount, which was
\* not 0 at first, is 0 and nextCount is 1
C21_Witness ==
  /\ pc = "build"
  /\ skipped = 2
  /\ i_debugger_stepping = 0
  /\ i_debugger_nexting = 1

=============================================================================
